---- MODULE Spec2Model ----
(***************************************************************************)
(* Model of the two statement parsers of src/src/extractor.py             *)
(* (NubankTransactionsExtractor.extract = layout 1,                       *)
(* SicoobCardStatementExtractor.extract = layout 2) as driven by          *)
(* src/main.py.                                                           *)
(*                                                                         *)
(* A text line is modelled as the sequence of its lexical tokens (a       *)
(* literal word group, a date token, a monetary token, ...).  The regular *)
(* expressions and str.startswith tests of the source are operators over  *)
(* token sequences; descriptions and amounts are built as strings, the    *)
(* way the source builds them.  The document is revealed one line at a    *)
(* time: every step draws the next line from a fixed alphabet of lines.   *)
(*                                                                         *)
(* Characters outside Latin-1 are transliterated in string literals:      *)
(* the card mask U+2022 x4 is written "****" and the minus sign U+2212 is *)
(* written "~".                                                            *)
(***************************************************************************)
EXTENDS Integers, Sequences, FiniteSets, TLC

VARIABLES
    layout,               \* 1 = Nubank parser, 2 = Sicoob parser (main.py:66-70)
    self_statement_year,  \* extractor.statement_year
    self_holder_name,     \* extractor.holder_name (layout 1)
    pc,                   \* "start" | "page" | "lines" | "done" | "failed"
    err,                  \* exception that ended the parse, or NoErr
    result,               \* value returned by extract(), or None
    page,                 \* number of the page being read (0 before the first)
    nlines,               \* number of lines read so far
    in_transactions, in_holder_block, in_payments,   \* layout 1 section flags
    in_movimentos, in_gastos,                        \* layout 2 section flags
    current,              \* the open TransactionRow, or None
    transacoes,           \* primary output sequence
    pagamentos,           \* secondary output sequence (pagamentos / movimentos)
    statement_month, statement_year, valid_months_gastos,  \* layout 2 context
    firstDate,            \* outcome of the first-page DD/MM/YYYY search, or None
    seenHdr,              \* a DD/MM/YYYY token has been read on page 1
    opened,               \* number of TransactionRow records opened so far
    ev                    \* the last step taken: the line read and the branch reached

vars == <<layout, self_statement_year, self_holder_name, pc, err, result, page,
          nlines, in_transactions, in_holder_block, in_payments, in_movimentos,
          in_gastos, current, transacoes, pagamentos, statement_month,
          statement_year, valid_months_gastos, firstDate, seenHdr, opened, ev>>

-----------------------------------------------------------------------------
(* Bounds of the exploration *)

MaxLines == 4
MaxPages == 2

-----------------------------------------------------------------------------
(* Values *)

\* Python's None where the other values are records
None == [none |-> TRUE]

\* Python's None where the other values are strings
NoneStr == "<None>"

NoErr == "none"

UMinus == "~"
CardMask == "**** 0539"

DefaultStatementYear == 2026
DefaultHolderName == "Nome do Titular"

HolderName == "MARIA SILVA"

\* args.year values explored (a leap year and a common year)
ArgYears == {2024, 2026}

\* args.owner values explored: --owner absent (None) or given
ArgOwners == {NoneStr, HolderName}

-----------------------------------------------------------------------------
(* Tokens *)

Pad2(n) == IF n < 10 THEN "0" \o ToString(n) ELSE ToString(n)

Tok(k, s) == [k |-> k, s |-> s, dd |-> 0, mm |-> 0, yyyy |-> 0, mon |-> "",
              sg |-> "", num |-> ""]

\* a run of plain text
W(s) == Tok("w", s)

\* "<n> de <m>" page footer
PageNo(n, m) == Tok("pageno", ToString(n) \o " de " \o ToString(m))

\* masked card number "**** 0539"
Mask == Tok("mask", CardMask)

\* "DD MON" (layout 1 date token)
DMon(dd, mon) == [Tok("dmon", Pad2(dd) \o " " \o mon) EXCEPT !.dd = dd, !.mon = mon]

\* "DD/MM" (layout 2 date token)
DM(dd, mm) == [Tok("ddmm", Pad2(dd) \o "/" \o Pad2(mm)) EXCEPT !.dd = dd, !.mm = mm]

\* "DD/MM/YYYY"
DMY(dd, mm, yyyy) ==
    [Tok("ddmmyyyy", Pad2(dd) \o "/" \o Pad2(mm) \o "/" \o ToString(yyyy))
        EXCEPT !.dd = dd, !.mm = mm, !.yyyy = yyyy]

\* "[sign]R$ num" (a match of VALUE_RE)
Brl(sg, num) == [Tok("brl", sg \o "R$ " \o num) EXCEPT !.sg = sg, !.num = num]

\* "[-]num" (a match of LAST_VALUE_RE when it ends the line)
Num(sg, num) == [Tok("num", sg \o num) EXCEPT !.sg = sg, !.num = num]

\* s + " " + t, then strip()
JoinStrip(s, t) ==
    IF s = "" THEN t ELSE IF t = "" THEN s ELSE s \o " " \o t

RECURSIVE JoinToks(_)
JoinToks(toks) ==
    IF toks = <<>> THEN ""
    ELSE JoinStrip(Head(toks).s, JoinToks(Tail(toks)))

StartsWith(line, lit) == line # <<>> /\ Head(line).s = lit

Contains(line, lit) == \E i \in 1..Len(line) : line[i].s = lit

Front(s) == SubSeq(s, 1, Len(s) - 1)

Last(s) == s[Len(s)]

-----------------------------------------------------------------------------
(* Calendar: datetime.date(y, m, d) raises ValueError unless the date exists *)

IsLeap(y) == (y % 4 = 0 /\ y % 100 # 0) \/ y % 400 = 0

DaysIn(y, m) ==
    IF m = 2 THEN (IF IsLeap(y) THEN 29 ELSE 28)
    ELSE IF m \in {4, 6, 9, 11} THEN 30 ELSE 31

ValidDate(y, m, d) ==
    /\ y >= 1 /\ y <= 9999
    /\ m >= 1 /\ m <= 12
    /\ d >= 1 /\ d <= DaysIn(y, m)

IsoFormat(y, m, d) == ToString(y) \o "-" \o Pad2(m) \o "-" \o Pad2(d)

-----------------------------------------------------------------------------
(* TransactionRow.  data, descricao, valor are the fields of the source;   *)
(* ln, pg (line and page that opened the record), lln, lpg (line and page  *)
(* of the last line merged into it) and sec (section active when it was    *)
(* opened) are history fields that the parser never reads.                 *)

Row(data, descricao, valor, ln, pg, sec) ==
    [data |-> data, descricao |-> descricao, valor |-> valor,
     ln |-> ln, pg |-> pg, lln |-> ln, lpg |-> pg, sec |-> sec]

ExtractionResult(tr, pg) ==
    [transacoes |-> tr, pagamentos_e_financiamentos |-> pg]

-----------------------------------------------------------------------------
(* Layout 1: NubankTransactionsExtractor *)

MONTHS ==
    ("JAN" :> 1) @@ ("FEV" :> 2) @@ ("MAR" :> 3) @@ ("ABR" :> 4) @@
    ("MAI" :> 5) @@ ("JUN" :> 6) @@ ("JUL" :> 7) @@ ("AGO" :> 8) @@
    ("SET" :> 9) @@ ("OUT" :> 10) @@ ("NOV" :> 11) @@ ("DEZ" :> 12)

\* DATE_RE.match(line): the line begins with a "DD MON" token
DATE_RE(line) == line # <<>> /\ Head(line).k = "dmon"

\* list(VALUE_RE.finditer(s)): the "R$" monetary tokens, in order
VALUE_RE(toks) == SelectSeq(toks, LAMBDA t : t.k = "brl")

BrlToStr(sign, num) ==
    (IF sign \in {"-", UMinus} THEN "-" ELSE "") \o "R$ " \o num

\* variant: no year wrap for DEZ
ParseYearNoWrap(mon_abbr) == self_statement_year

ParseYear(mon_abbr) ==
    IF mon_abbr = "DEZ" THEN self_statement_year - 1 ELSE self_statement_year

\* _clean_desc: the mask is removed only when text follows it (the pattern
\* ends in \s+); whitespace runs collapse to the single space JoinToks puts
\* between tokens
CleanDesc(toks) ==
    IF Len(toks) >= 2 /\ Head(toks).k = "mask" THEN Tail(toks) ELSE toks

\* _strip_trailing_brl: drops the last VALUE_RE match when it ends the text
StripTrailingBrl(toks) ==
    IF toks # <<>> /\ Last(toks).k = "brl" THEN Front(toks) ELSE toks

\* variant: the payments test is not exclusive (an "if" without its "else")
FlushNubankBoth(cur, inpay, tr, pg) ==
    IF cur # None
    THEN [current |-> None, transacoes |-> Append(tr, cur),
          pagamentos |-> IF inpay THEN Append(pg, cur) ELSE pg]
    ELSE [current |-> cur, transacoes |-> tr, pagamentos |-> pg]

\* flush() of NubankTransactionsExtractor.extract
FlushNubank(cur, inpay, tr, pg) ==
    IF cur # None
    THEN IF inpay
         THEN [current |-> None, transacoes |-> tr, pagamentos |-> Append(pg, cur)]
         ELSE [current |-> None, transacoes |-> Append(tr, cur), pagamentos |-> pg]
    ELSE [current |-> cur, transacoes |-> tr, pagamentos |-> pg]

\* lines 119-122
NubankNoise(line) ==
    \/ Len(line) = 1 /\ line[1].k = "pageno"
    \/ Contains(line, "FATURA") /\ Contains(line, "EMISSÃO")

\* variant: a date that does not exist is skipped like an unknown month
NubankDateSkipInvalid(line, st) ==
    LET dd == Head(line).dd
        mon_abbr == Head(line).mon
        yyyy == ParseYear(mon_abbr)
        mm == MONTHS[mon_abbr]
        desc == JoinToks(StripTrailingBrl(CleanDesc(Tail(line))))
        vals == VALUE_RE(line)
        valor == IF vals # <<>> THEN BrlToStr(Last(vals).sg, Last(vals).num) ELSE ""
    IN  IF mon_abbr \notin DOMAIN MONTHS THEN st
        ELSE IF ~ValidDate(yyyy, mm, dd) THEN st
        ELSE [st EXCEPT
                !.cur = Row(IsoFormat(yyyy, mm, dd), desc, valor, nlines + 1, page,
                            IF st.ip THEN "secondary" ELSE "primary"),
                !.opened = @ + 1]

\* variant: the month table is indexed without the membership test
NubankDateKeyError(line, st) ==
    LET dd == Head(line).dd
        mon_abbr == Head(line).mon
        yyyy == ParseYear(mon_abbr)
        mm == MONTHS[mon_abbr]
        desc == JoinToks(StripTrailingBrl(CleanDesc(Tail(line))))
        vals == VALUE_RE(line)
        valor == IF vals # <<>> THEN BrlToStr(Last(vals).sg, Last(vals).num) ELSE ""
    IN  IF mon_abbr \notin DOMAIN MONTHS
        THEN [st EXCEPT !.pc = "failed", !.err = "KeyError"]
        ELSE IF ~ValidDate(yyyy, mm, dd)
             THEN [st EXCEPT !.pc = "failed", !.err = "ValueError"]
        ELSE [st EXCEPT
                !.cur = Row(IsoFormat(yyyy, mm, dd), desc, valor, nlines + 1, page,
                            IF st.ip THEN "secondary" ELSE "primary"),
                !.opened = @ + 1]

\* lines 124-147: the branch taken when DATE_RE matches
NubankDate(line, st) ==
    LET dd == Head(line).dd
        mon_abbr == Head(line).mon
        yyyy == ParseYear(mon_abbr)
        mm == MONTHS[mon_abbr]
        desc == JoinToks(StripTrailingBrl(CleanDesc(Tail(line))))
        vals == VALUE_RE(line)
        valor == IF vals # <<>> THEN BrlToStr(Last(vals).sg, Last(vals).num) ELSE ""
    IN  IF mon_abbr \notin DOMAIN MONTHS THEN st
        ELSE IF ~ValidDate(yyyy, mm, dd)
             THEN [st EXCEPT !.pc = "failed", !.err = "ValueError"]
        ELSE [st EXCEPT
                !.cur = Row(IsoFormat(yyyy, mm, dd), desc, valor, nlines + 1, page,
                            IF st.ip THEN "secondary" ELSE "primary"),
                !.opened = @ + 1]

\* lines 149-167: continuation of the description and/or the amount
NubankContinuation(line, st) ==
    LET vals == VALUE_RE(line)
        extra == JoinToks(CleanDesc(line))
    IN  IF st.cur = None THEN st
        ELSE IF vals # <<>>
             THEN [st EXCEPT !.cur.valor = BrlToStr(Last(vals).sg, Last(vals).num),
                             !.cur.lln = nlines + 1, !.cur.lpg = page]
        ELSE IF extra # ""
             THEN [st EXCEPT !.cur.descricao = JoinStrip(@, extra),
                             !.cur.lln = nlines + 1, !.cur.lpg = page]
        ELSE st

\* variant: the header resets the section state (the reset that the comment
\* at lines 88-89 warns against)
TransactionsHeaderReset(st) ==
    [st EXCEPT !.it = TRUE, !.ihb = FALSE, !.ip = FALSE,
               !.branch = "transactions_header"]

\* lines 90-93, after the flush: the "TRANSAÇÕES DE " header
TransactionsHeader(st) ==
    [st EXCEPT !.it = TRUE, !.branch = "transactions_header"]

\* variant: the holder line enters the holder block without a flush
HolderLineNoFlush(base, flushed) ==
    IF ~base.ip
    THEN [base EXCEPT !.ihb = TRUE, !.branch = "holder"]
    ELSE [base EXCEPT !.branch = "holder_in_payments"]

\* variant: the holder line closes the open record in the payments block too
HolderLineFlushInPayments(base, flushed) ==
    IF ~base.ip
    THEN [flushed EXCEPT !.ihb = TRUE, !.branch = "holder"]
    ELSE [flushed EXCEPT !.branch = "holder_in_payments"]

\* variant: the holder line re-enters the holder block from the payments block
HolderLineLeavesPayments(base, flushed) ==
    [flushed EXCEPT !.ihb = TRUE, !.ip = FALSE, !.branch = "holder"]

\* lines 101-107: a line that starts with the holder name; base is the state
\* before the line, flushed the state after flush()
HolderLine(base, flushed) ==
    IF ~base.ip
    THEN [flushed EXCEPT !.ihb = TRUE, !.branch = "holder"]
    ELSE [base EXCEPT !.branch = "holder_in_payments"]

\* variant: the payments header does not flush
PaymentsHeaderNoFlush(base) ==
    [base EXCEPT !.ip = TRUE, !.ihb = FALSE, !.branch = "payments_header"]

\* variant: in_payments is set before the flush
PaymentsHeaderFlagFirst(base) ==
    LET f == FlushNubank(base.cur, TRUE, base.tr, base.pg)
    IN  [base EXCEPT !.cur = f.current, !.tr = f.transacoes, !.pg = f.pagamentos,
                     !.ip = TRUE, !.ihb = FALSE, !.branch = "payments_header"]

\* lines 110-114: the "Pagamentos e Financiamentos" header; the flush runs
\* before the flags change
PaymentsHeader(base) ==
    LET f == FlushNubank(base.cur, base.ip, base.tr, base.pg)
    IN  [base EXCEPT !.cur = f.current, !.tr = f.transacoes, !.pg = f.pagamentos,
                     !.ip = TRUE, !.ihb = FALSE, !.branch = "payments_header"]

\* lines 84-167: the body of the per-line loop, as a function of the state
NubankStep(line) ==
    LET base == [it |-> in_transactions, ihb |-> in_holder_block,
                 ip |-> in_payments, cur |-> current, tr |-> transacoes,
                 pg |-> pagamentos, pc |-> "lines", err |-> NoErr,
                 opened |-> opened, branch |-> "blank"]
        f == FlushNubank(current, in_payments, transacoes, pagamentos)
        flushed == [base EXCEPT !.cur = f.current, !.tr = f.transacoes,
                                !.pg = f.pagamentos]
    IN  IF line = <<>> THEN base
        ELSE IF StartsWith(line, "TRANSAÇÕES DE")
             THEN TransactionsHeader(flushed)
        ELSE IF ~in_transactions THEN [base EXCEPT !.branch = "outside"]
        ELSE IF self_holder_name = NoneStr
             \* str.startswith(None) raises TypeError
             THEN [base EXCEPT !.pc = "failed", !.err = "TypeError",
                               !.branch = "holder_test"]
        ELSE IF StartsWith(line, self_holder_name)
             THEN HolderLine(base, flushed)
        ELSE IF StartsWith(line, "Pagamentos e Financiamentos")
             THEN PaymentsHeader(base)
        ELSE IF ~in_payments /\ ~in_holder_block
             THEN [base EXCEPT !.branch = "gated"]
        ELSE IF NubankNoise(line) THEN [base EXCEPT !.branch = "noise"]
        ELSE IF DATE_RE(line)
             THEN NubankDate(line, [flushed EXCEPT !.branch = "date"])
        ELSE NubankContinuation(line, [base EXCEPT !.branch = "continuation"])

\* the lines a layout-1 document is made of
NubankLines ==
    { <<>>,
      <<W("TRANSAÇÕES DE"), W("01 JAN A 31 JAN")>>,
      <<W(HolderName)>>,
      <<W("JOSE SOUZA")>>,
      <<W("Pagamentos e Financiamentos")>>,
      <<PageNo(3, 7)>>,
      <<W("FATURA"), W("31 JAN 2026"), W("EMISSÃO"), W("E ENVIO"), W("24 JAN 2026")>>,
      <<DMon(1, "JAN"), W("Some"), W("Store"), Brl("", "12,34")>>,
      <<DMon(31, "DEZ"), W("Other Store"), Brl("", "9,90")>>,
      <<DMon(29, "FEV"), Mask, W("Padaria")>>,
      <<DMon(31, "ABR"), W("Loja")>>,
      <<DMon(12, "XYZ"), W("foo")>>,
      <<Mask, W("Parcela 2/3")>>,
      <<W("IOF de atraso"), Brl(UMinus, "3,94")>> }

-----------------------------------------------------------------------------
(* Layout 2: SicoobCardStatementExtractor *)

\* DATE_DDMM_RE.match(line): "DD/MM" followed by a word boundary, which a
\* "DD/MM/YYYY" token also satisfies
DATE_DDMM_RE(line) == line # <<>> /\ Head(line).k \in {"ddmm", "ddmmyyyy"}

\* line[mdate.end():].strip(), as tokens
AfterDDMM(line) ==
    IF Head(line).k = "ddmmyyyy"
    THEN <<W("/" \o ToString(Head(line).yyyy))>> \o Tail(line)
    ELSE Tail(line)

\* LAST_VALUE_RE.search(s.strip()) succeeds
LAST_VALUE_RE(toks) == toks # <<>> /\ Last(toks).k = "num"

ParseLastValueAsBrl(toks) ==
    IF ~LAST_VALUE_RE(toks) THEN NoneStr
    ELSE (IF Last(toks).sg = "-" THEN "-" ELSE "") \o "R$ " \o Last(toks).num

\* a or b, for values that are a string or None
OrElse(a, b) == IF a = NoneStr \/ a = "" THEN b ELSE a

StripTrailingValue(toks) ==
    IF ~LAST_VALUE_RE(toks) THEN JoinToks(toks) ELSE JoinToks(Front(toks))

\* variant: the output list is rebuilt instead of appended to
FlushSicoobReplace(cur, inmov, ingas, tr, mv) ==
    IF cur # None
    THEN IF inmov /\ ~ingas
         THEN [current |-> None, transacoes |-> tr, pagamentos |-> <<cur>>]
         ELSE IF ingas
         THEN [current |-> None, transacoes |-> <<cur>>, pagamentos |-> mv]
         ELSE [current |-> None, transacoes |-> tr, pagamentos |-> mv]
    ELSE [current |-> cur, transacoes |-> tr, pagamentos |-> mv]

\* variant: the "if current" guard is missing
FlushSicoobNoGuard(cur, inmov, ingas, tr, mv) ==
    IF inmov /\ ~ingas
    THEN [current |-> None, transacoes |-> tr, pagamentos |-> Append(mv, cur)]
    ELSE IF ingas
    THEN [current |-> None, transacoes |-> Append(tr, cur), pagamentos |-> mv]
    ELSE [current |-> None, transacoes |-> tr, pagamentos |-> mv]

\* flush() of SicoobCardStatementExtractor.extract
FlushSicoob(cur, inmov, ingas, tr, mv) ==
    IF cur # None
    THEN IF inmov /\ ~ingas
         THEN [current |-> None, transacoes |-> tr, pagamentos |-> Append(mv, cur)]
         ELSE IF ingas
         THEN [current |-> None, transacoes |-> Append(tr, cur), pagamentos |-> mv]
         ELSE [current |-> None, transacoes |-> tr, pagamentos |-> mv]
    ELSE [current |-> cur, transacoes |-> tr, pagamentos |-> mv]

\* variant: a later amount overwrites the amount already set
MergeContinuationLastWins(cur, line, ln, pg) ==
    IF StartsWith(line, "Cliente:") \/ StartsWith(line, "Conta Cartão:")
    THEN cur
    ELSE IF LAST_VALUE_RE(line)
    THEN LET before == JoinToks(Front(line))
             u1 == IF before # ""
                   THEN [cur EXCEPT !.descricao = JoinStrip(@, before)]
                   ELSE cur
         IN  [u1 EXCEPT !.valor = OrElse(ParseLastValueAsBrl(line), ""),
                        !.lln = ln, !.lpg = pg]
    ELSE [cur EXCEPT !.descricao = JoinStrip(@, JoinToks(line)),
                     !.lln = ln, !.lpg = pg]

\* _merge_continuation; ln, pg identify the merged line
MergeContinuation(cur, line, ln, pg) ==
    IF StartsWith(line, "Cliente:") \/ StartsWith(line, "Conta Cartão:")
    THEN cur
    ELSE IF LAST_VALUE_RE(line)
    THEN LET before == JoinToks(Front(line))
             u1 == IF before # ""
                   THEN [cur EXCEPT !.descricao = JoinStrip(@, before)]
                   ELSE cur
             u2 == IF u1.valor = ""
                   THEN [u1 EXCEPT !.valor = OrElse(ParseLastValueAsBrl(line), "")]
                   ELSE u1
         IN  [u2 EXCEPT !.lln = ln, !.lpg = pg]
    ELSE [cur EXCEPT !.descricao = JoinStrip(@, JoinToks(line)),
                     !.lln = ln, !.lpg = pg]

\* lines 250-258: the reference month and year from the first page
PrevMonth(m) == IF m = 1 THEN 12 ELSE m - 1

ValidMonthsGastos(m) == {m, PrevMonth(m)}

\* lines 294-306: the dateless "- SALDO ANTERIOR" record
SaldoAnterior(line) ==
    LET val == ParseLastValueAsBrl(line)
        body == IF LAST_VALUE_RE(line) THEN Front(Tail(line)) ELSE Tail(line)
    IN  Row("", "SALDO ANTERIOR: " \o JoinToks(body), OrElse(val, ""),
            nlines + 1, page, "secondary")

\* variant: the reference month itself wraps to the previous year
SicoobYearGE(mm) ==
    IF mm >= statement_month THEN statement_year - 1 ELSE statement_year

\* line 329: the year of a DD/MM record start
SicoobYear(mm) ==
    IF mm > statement_month THEN statement_year - 1 ELSE statement_year

\* variant: in GASTOS a month outside the valid months never opens a record
SicoobDateValidMonthsOnly(line, st) ==
    LET dd == Head(line).dd
        mm == Head(line).mm
        yyyy == SicoobYear(mm)
        rest == AfterDDMM(line)
        valor == OrElse(ParseLastValueAsBrl(rest),
                        OrElse(ParseLastValueAsBrl(line), ""))
        desc == StripTrailingValue(rest)
    IN  IF st.ig /\ mm \notin valid_months_gastos
        THEN st
        ELSE IF ~ValidDate(yyyy, mm, dd)
        THEN [st EXCEPT !.pc = "failed", !.err = "ValueError"]
        ELSE [st EXCEPT
                !.cur = Row(IsoFormat(yyyy, mm, dd), desc, valor, nlines + 1, page,
                            IF st.ig THEN "primary" ELSE "secondary"),
                !.opened = @ + 1]

\* lines 324-340: the branch taken when DATE_DDMM_RE matches
SicoobDate(line, st) ==
    LET dd == Head(line).dd
        mm == Head(line).mm
        yyyy == SicoobYear(mm)
        rest == AfterDDMM(line)
        valor == OrElse(ParseLastValueAsBrl(rest),
                        OrElse(ParseLastValueAsBrl(line), ""))
        desc == StripTrailingValue(rest)
    IN  IF ~ValidDate(yyyy, mm, dd)
        THEN [st EXCEPT !.pc = "failed", !.err = "ValueError"]
        ELSE [st EXCEPT
                !.cur = Row(IsoFormat(yyyy, mm, dd), desc, valor, nlines + 1, page,
                            IF st.ig THEN "primary" ELSE "secondary"),
                !.opened = @ + 1]

\* variant: the membership test is inverted
IsInstallmentContinuationInverted(line) ==
    /\ current # None
    /\ in_gastos
    /\ DATE_DDMM_RE(line)
    /\ Head(line).mm \in valid_months_gastos

\* variant: the day field is tested instead of the month field
IsInstallmentContinuationDay(line) ==
    /\ current # None
    /\ in_gastos
    /\ DATE_DDMM_RE(line)
    /\ Head(line).dd \notin valid_months_gastos

\* lines 316-320: a DD/MM-shaped line that is read as a continuation
IsInstallmentContinuation(line) ==
    /\ current # None
    /\ in_gastos
    /\ DATE_DDMM_RE(line)
    /\ Head(line).mm \notin valid_months_gastos

\* lines 267-271, after the flush: the "MOVIMENTOS" header
MovimentosHeader(st) ==
    [st EXCEPT !.im = TRUE, !.ig = FALSE, !.branch = "movimentos_header"]

\* variant: the GASTOS header leaves the MOVIMENTOS flag set
GastosHeaderKeepMovimentos(st) ==
    [st EXCEPT !.ig = TRUE, !.branch = "gastos_header"]

\* lines 273-277, after the flush: the "GASTOS DE " header
GastosHeader(st) ==
    [st EXCEPT !.ig = TRUE, !.im = FALSE, !.branch = "gastos_header"]

\* lines 280-283, after the flush: the totals line that ends GASTOS
GastosEnd(st) ==
    [st EXCEPT !.ig = FALSE, !.branch = "gastos_end"]

\* variant: the dateless record stays open
SaldoAnteriorLineOpen(line, st) ==
    [st EXCEPT !.cur = SaldoAnterior(line), !.opened = @ + 1,
               !.branch = "saldo_anterior"]

\* lines 295-306, after the first flush: the record is built and flushed
SaldoAnteriorLine(line, st) ==
    LET g == FlushSicoob(SaldoAnterior(line), st.im, st.ig, st.tr, st.pg)
    IN  [st EXCEPT !.cur = g.current, !.tr = g.transacoes, !.pg = g.pagamentos,
                   !.opened = @ + 1, !.branch = "saldo_anterior"]

\* lines 263-344: the body of the per-line loop, as a function of the state
SicoobStep(line) ==
    LET base == [im |-> in_movimentos, ig |-> in_gastos, cur |-> current,
                 tr |-> transacoes, pg |-> pagamentos, pc |-> "lines",
                 err |-> NoErr, opened |-> opened, branch |-> "blank"]
        f == FlushSicoob(current, in_movimentos, in_gastos, transacoes, pagamentos)
        flushed == [base EXCEPT !.cur = f.current, !.tr = f.transacoes,
                                !.pg = f.pagamentos]
    IN  IF line = <<>> THEN base
        ELSE IF StartsWith(line, "MOVIMENTOS")
             THEN MovimentosHeader(flushed)
        ELSE IF StartsWith(line, "GASTOS DE")
             THEN GastosHeader(flushed)
        ELSE IF in_gastos /\ (StartsWith(line, "TOTAL") \/ StartsWith(line, "DEMONSTRATIVO"))
             THEN GastosEnd(flushed)
        ELSE IF ~in_movimentos /\ ~in_gastos
             THEN [base EXCEPT !.branch = "outside"]
        ELSE IF \/ line = <<W("SICOOB")>>
                \/ Contains(line, "EXTRATO DE CARTÃO DE CRÉDITO")
                \/ StartsWith(line, "Cliente:")
                \/ StartsWith(line, "Fatura de")
             THEN [base EXCEPT !.branch = "noise"]
        ELSE IF in_movimentos /\ StartsWith(line, "- SALDO ANTERIOR")
             THEN SaldoAnteriorLine(line, flushed)
        ELSE IF IsInstallmentContinuation(line)
             THEN [base EXCEPT
                     !.cur = MergeContinuation(current, line, nlines + 1, page),
                     !.branch = "installment"]
        ELSE IF DATE_DDMM_RE(line)
             THEN SicoobDate(line, [flushed EXCEPT !.branch = "date"])
        ELSE IF current # None
             THEN [base EXCEPT
                     !.cur = MergeContinuation(current, line, nlines + 1, page),
                     !.branch = "continuation"]
        ELSE [base EXCEPT !.branch = "continuation"]

\* the DD/MM/YYYY dates a first page may carry
HeaderDates == { DMY(10, 3, 2026), DMY(5, 5, 2025) }

\* the lines a layout-2 document is made of
SicoobLines ==
    { <<>>,
      <<W("SICOOB")>>,
      <<W("Cliente:"), W("MARIA SILVA")>>,
      <<W("Conta Cartão:"), W("5127")>>,
      <<W("MOVIMENTOS")>>,
      <<W("GASTOS DE"), W("MARIA SILVA")>>,
      <<W("TOTAL"), Num("", "1.234,56")>>,
      <<W("- SALDO ANTERIOR"), Num("", "1.234,56")>>,
      <<W("- SALDO ANTERIOR")>>,
      <<DM(15, 3), W("MERCADO"), Num("", "69,15")>>,
      <<DM(20, 12), W("POSTO")>>,
      <<DM(1, 2), W("PARCELA LOJA X")>>,
      <<DM(31, 4), W("FARMACIA"), Num("-", "30,00")>>,
      <<W("CANED"), Num("", "8,50")>>,
      <<W("SAO PAULO BR")>> }
    \cup { <<W("Vencimento"), d>> : d \in HeaderDates }

HasFullDate(line) == \E i \in 1..Len(line) : line[i].k = "ddmmyyyy"

FirstFullDate(line) ==
    line[CHOOSE i \in 1..Len(line) :
            /\ line[i].k = "ddmmyyyy"
            /\ \A j \in 1..(i - 1) : line[j].k # "ddmmyyyy"]

-----------------------------------------------------------------------------
(* The program *)

\* main.py:66-70 builds the extractor; the locals of extract() at lines
\* 63-69 and 228-237
Init ==
    /\ layout \in {1, 2}
    /\ self_statement_year \in ArgYears
    /\ self_holder_name \in (IF layout = 1 THEN ArgOwners ELSE {NoneStr})
    /\ pc = "start"
    /\ err = NoErr
    /\ result = None
    /\ page = 0
    /\ nlines = 0
    /\ in_transactions = FALSE
    /\ in_holder_block = FALSE
    /\ in_payments = FALSE
    /\ in_movimentos = FALSE
    /\ in_gastos = FALSE
    /\ current = None
    /\ transacoes = <<>>
    /\ pagamentos = <<>>
    /\ statement_month = 1
    /\ statement_year = self_statement_year
    /\ valid_months_gastos = {1, 12}
    /\ firstDate = None
    /\ seenHdr = FALSE
    /\ opened = 0
    /\ ev = [line |-> <<>>, branch |-> "init"]

\* layout 1: pdfplumber.open, nothing is read before the page loop
NubankOpen ==
    /\ layout = 1 /\ pc = "start"
    /\ pc' = "page"
    /\ ev' = [line |-> <<>>, branch |-> "open"]
    /\ UNCHANGED <<layout, self_statement_year, self_holder_name, err, result,
                   page, nlines, in_transactions, in_holder_block, in_payments,
                   in_movimentos, in_gastos, current, transacoes, pagamentos,
                   statement_month, statement_year, valid_months_gastos,
                   firstDate, seenHdr, opened>>

\* layout 2, lines 250-258: the first DD/MM/YYYY of the first page, if any,
\* sets the reference month and year
SicoobPrePass ==
    /\ layout = 2 /\ pc = "start"
    /\ \E d \in {None} \cup HeaderDates :
          /\ firstDate' = d
          /\ IF d # None
             THEN /\ statement_year' = d.yyyy
                  /\ statement_month' = d.mm
                  /\ valid_months_gastos' = ValidMonthsGastos(d.mm)
             ELSE UNCHANGED <<statement_year, statement_month, valid_months_gastos>>
    /\ pc' = "page"
    /\ ev' = [line |-> <<>>, branch |-> "open"]
    /\ UNCHANGED <<layout, self_statement_year, self_holder_name, err, result,
                   page, nlines, in_transactions, in_holder_block, in_payments,
                   in_movimentos, in_gastos, current, transacoes, pagamentos,
                   seenHdr, opened>>

\* for page in pdf.pages: one more page
NextPage ==
    /\ pc = "page" /\ page < MaxPages
    /\ page' = page + 1
    /\ pc' = "lines"
    /\ ev' = [line |-> <<>>, branch |-> "next_page"]
    /\ UNCHANGED <<layout, self_statement_year, self_holder_name, err, result,
                   nlines, in_transactions, in_holder_block, in_payments,
                   in_movimentos, in_gastos, current, transacoes, pagamentos,
                   statement_month, statement_year, valid_months_gastos,
                   firstDate, seenHdr, opened>>

\* layout 1: one line of the current page
NubankLine ==
    /\ layout = 1 /\ pc = "lines" /\ nlines < MaxLines
    /\ \E line \in NubankLines :
          LET r == NubankStep(line) IN
          /\ in_transactions' = r.it
          /\ in_holder_block' = r.ihb
          /\ in_payments' = r.ip
          /\ current' = r.cur
          /\ transacoes' = r.tr
          /\ pagamentos' = r.pg
          /\ pc' = r.pc
          /\ err' = r.err
          /\ opened' = r.opened
          /\ ev' = [line |-> line, branch |-> r.branch]
    /\ nlines' = nlines + 1
    /\ UNCHANGED <<layout, self_statement_year, self_holder_name, result, page,
                   in_movimentos, in_gastos, statement_month, statement_year,
                   valid_months_gastos, firstDate, seenHdr>>

\* the first page of a layout-2 document holds the date the pre-pass found
ConsistentWithPrePass(line) ==
    (page = 1 /\ HasFullDate(line)) =>
        /\ firstDate # None
        /\ (seenHdr \/ FirstFullDate(line) = firstDate)

\* layout 2: one line of the current page
SicoobLine ==
    /\ layout = 2 /\ pc = "lines" /\ nlines < MaxLines
    /\ \E line \in SicoobLines :
          LET r == SicoobStep(line) IN
          /\ ConsistentWithPrePass(line)
          /\ in_movimentos' = r.im
          /\ in_gastos' = r.ig
          /\ current' = r.cur
          /\ transacoes' = r.tr
          /\ pagamentos' = r.pg
          /\ pc' = r.pc
          /\ err' = r.err
          /\ opened' = r.opened
          /\ seenHdr' = (seenHdr \/ (page = 1 /\ HasFullDate(line)))
          /\ ev' = [line |-> line, branch |-> r.branch]
    /\ nlines' = nlines + 1
    /\ UNCHANGED <<layout, self_statement_year, self_holder_name, result, page,
                   in_transactions, in_holder_block, in_payments,
                   statement_month, statement_year, valid_months_gastos,
                   firstDate>>

\* flush() of the running parser
Flush ==
    IF layout = 1
    THEN FlushNubank(current, in_payments, transacoes, pagamentos)
    ELSE FlushSicoob(current, in_movimentos, in_gastos, transacoes, pagamentos)

\* variant: the page loop ends without a flush
PageEndNoFlush ==
    /\ pc = "lines"
    /\ (layout = 2 /\ page = 1 /\ firstDate # None) => seenHdr
    /\ pc' = "page"
    /\ ev' = [line |-> <<>>, branch |-> "page_end"]
    /\ UNCHANGED <<layout, self_statement_year, self_holder_name, err, result,
                   page, nlines, in_transactions, in_holder_block, in_payments,
                   in_movimentos, in_gastos, current, transacoes, pagamentos,
                   statement_month, statement_year, valid_months_gastos,
                   firstDate, seenHdr, opened>>

\* lines 172 and 347: the flush that ends every page
PageEnd ==
    /\ pc = "lines"
    /\ (layout = 2 /\ page = 1 /\ firstDate # None) => seenHdr
    /\ current' = Flush.current
    /\ transacoes' = Flush.transacoes
    /\ pagamentos' = Flush.pagamentos
    /\ pc' = "page"
    /\ ev' = [line |-> <<>>, branch |-> "page_end"]
    /\ UNCHANGED <<layout, self_statement_year, self_holder_name, err, result,
                   page, nlines, in_transactions, in_holder_block, in_payments,
                   in_movimentos, in_gastos, statement_month, statement_year,
                   valid_months_gastos, firstDate, seenHdr, opened>>

\* lines 174-178 and 349-353: the last flush and the returned result
Return ==
    /\ pc = "page"
    /\ (layout = 2 /\ page = 0) => firstDate = None
    /\ current' = Flush.current
    /\ transacoes' = Flush.transacoes
    /\ pagamentos' = Flush.pagamentos
    /\ result' = ExtractionResult(Flush.transacoes, Flush.pagamentos)
    /\ pc' = "done"
    /\ ev' = [line |-> <<>>, branch |-> "return"]
    /\ UNCHANGED <<layout, self_statement_year, self_holder_name, err, page,
                   nlines, in_transactions, in_holder_block, in_payments,
                   in_movimentos, in_gastos, statement_month, statement_year,
                   valid_months_gastos, firstDate, seenHdr, opened>>

Next ==
    \/ NubankOpen
    \/ SicoobPrePass
    \/ NextPage
    \/ NubankLine
    \/ SicoobLine
    \/ PageEnd
    \/ Return

Spec == Init /\ [][Next]_vars

-----------------------------------------------------------------------------
(* Properties *)

\* the records held by the parser: both outputs and the open record
OpenRows == IF current = None THEN <<>> ELSE <<current>>

AllRows == transacoes \o pagamentos \o OpenRows

IsPrefix(s, t) == Len(s) <= Len(t) /\ SubSeq(t, 1, Len(s)) = s

\* C1: every record opened is, at every moment, held exactly once: either
\* it is the open record or it sits once in exactly one of the two output
\* sequences; when the parse ends (result returned or error raised) no
\* record is open, so every opened record has been appended exactly once,
\* and the returned result is the pair of output sequences.
C1_OpenedRecordsPartitioned ==
    /\ Len(AllRows) = opened
    /\ \A i, j \in 1..Len(AllRows) : i # j => AllRows[i].ln # AllRows[j].ln
    /\ pc \in {"done", "failed"} => current = None
    /\ pc = "done" => result = ExtractionResult(transacoes, pagamentos)

C1_Witness ==
    /\ pc = "done"
    /\ Len(transacoes) >= 1
    /\ Len(pagamentos) >= 1

\* C2: between two pages no record is open; an open record was opened on
\* the page being read; and no record, open or appended, has received a
\* line from a page other than the one that opened it.
C2_PageEndFlush ==
    /\ pc = "page" => current = None
    /\ current # None => current.pg = page
    /\ \A i \in 1..Len(AllRows) : AllRows[i].lpg = AllRows[i].pg

\* a record opened on page 1 sits in the output while the holder-name line
\* that heads page 2 is read
C2_Witness ==
    /\ layout = 1
    /\ page = 2
    /\ ev.branch = "holder"
    /\ \E i \in 1..Len(transacoes) : transacoes[i].pg = 1

\* the installment line of a purchase paid in parts
InstallmentLine == <<DM(1, 2), W("PARCELA LOJA X")>>

\* the installment line has been merged into the open record
InstallmentMerged ==
    /\ opened' = opened
    /\ transacoes' = transacoes
    /\ pagamentos' = pagamentos
    /\ current' # None
    /\ current'.ln = current.ln
    /\ current'.data = current.data
    /\ current'.valor = current.valor
    /\ current'.descricao = JoinStrip(current.descricao, "01/02 PARCELA LOJA X")

\* C3, as stated: in layout 2 the line "01/02 PARCELA LOJA X", read while a
\* GASTOS record is open and 01 is not a valid month, is merged into the
\* open record and starts no record.
C3_AsStated ==
    [][(/\ layout = 2 /\ pc = "lines" /\ nlines' = nlines + 1
        /\ ev'.line = InstallmentLine
        /\ current # None /\ in_gastos
        /\ 1 \notin valid_months_gastos)
       => InstallmentMerged]_vars

\* C3, amended: in layout 2 the line "01/02 PARCELA LOJA X", read while a
\* GASTOS record is open and its month field 02 is not a valid month, is
\* merged into the open record and starts no record.
C3_InstallmentMergedByMonth ==
    [][(/\ layout = 2 /\ pc = "lines" /\ nlines' = nlines + 1
        /\ ev'.line = InstallmentLine
        /\ current # None /\ in_gastos
        /\ 2 \notin valid_months_gastos)
       => InstallmentMerged]_vars

C3_Witness ==
    /\ layout = 2
    /\ ev.line = InstallmentLine
    /\ ev.branch = "installment"
    /\ in_gastos
    /\ 2 \notin valid_months_gastos
    /\ current # None
    /\ current.lln = nlines
    /\ current.ln < nlines

\* C4: in layout 1 a record opened by a date-start line is dated in the
\* year before the configured one when its month is the twelfth (DEZ), and
\* in the configured year for each of the other eleven abbreviations.
C4_YearWrapLayout1 ==
    /\ \A m \in DOMAIN MONTHS :
          ParseYear(m) = self_statement_year - (IF MONTHS[m] = 12 THEN 1 ELSE 0)
    /\ (layout = 1 /\ ev.branch = "date" /\ pc # "failed"
        /\ Head(ev.line).mon \in DOMAIN MONTHS)
       => /\ current # None
          /\ current.ln = nlines
          /\ current.data =
                IsoFormat(self_statement_year
                              - (IF Head(ev.line).mon = "DEZ" THEN 1 ELSE 0),
                          MONTHS[Head(ev.line).mon], Head(ev.line).dd)

\* "31 DEZ Other Store R$ 9,90" with reference year 2026
C4_Witness ==
    /\ layout = 1
    /\ self_statement_year = 2026
    /\ ev.branch = "date"
    /\ Head(ev.line).mon = "DEZ"
    /\ current # None
    /\ current.data = "2025-12-31"

\* the reference month and year of a layout-2 statement
RefYear == IF firstDate # None THEN firstDate.yyyy ELSE self_statement_year

RefMonth == IF firstDate # None THEN firstDate.mm ELSE 1

\* C5: in layout 2 a DD/MM line that starts a record dates it in the
\* reference year minus one when its month is greater than the reference
\* month and in the reference year otherwise; the reference comes from the
\* first DD/MM/YYYY of the first page, and is the configured year when
\* there is none.
C5_YearWrapLayout2 ==
    (layout = 2 /\ ev.branch = "date" /\ pc # "failed")
    => /\ current # None
       /\ current.ln = nlines
       /\ current.data =
             IsoFormat(IF Head(ev.line).mm > RefMonth THEN RefYear - 1 ELSE RefYear,
                       Head(ev.line).mm, Head(ev.line).dd)

\* "20/12 POSTO" in a statement dated 10/03/2026
C5_Witness ==
    /\ layout = 2
    /\ ev.branch = "date"
    /\ firstDate # None
    /\ Head(ev.line).mm > firstDate.mm
    /\ current # None
    /\ current.data = "2025-12-20"

\* the date-start line just read resolves to a date that does not exist
InvalidDateLine ==
    /\ ev.branch = "date"
    /\ \/ /\ layout = 1
          /\ Head(ev.line).mon \in DOMAIN MONTHS
          /\ ~ValidDate(self_statement_year
                            - (IF Head(ev.line).mon = "DEZ" THEN 1 ELSE 0),
                        MONTHS[Head(ev.line).mon], Head(ev.line).dd)
       \/ /\ layout = 2
          /\ ~ValidDate(IF Head(ev.line).mm > RefMonth THEN RefYear - 1 ELSE RefYear,
                        Head(ev.line).mm, Head(ev.line).dd)

\* C6: a date-start line that resolves to a date that does not exist ends
\* the parse with the error of the date constructor: nothing is returned,
\* no record is open and no record was made from that line.
C6_InvalidDateFails ==
    /\ InvalidDateLine
       => /\ pc = "failed"
          /\ err = "ValueError"
          /\ current = None
          /\ \A i \in 1..Len(AllRows) : AllRows[i].ln # nlines
    /\ pc = "failed" => result = None

\* "31 ABR Loja" read after a record that had been opened
C6_Witness ==
    /\ layout = 1
    /\ InvalidDateLine
    /\ pc = "failed"
    /\ Len(transacoes) = 1

\* C7: in layout 1 a date-shaped line with an unknown month abbreviation is
\* skipped: the parse goes on, no record is opened for the line and the
\* line is merged into no record.
C7_UnknownMonthSkipped ==
    (layout = 1 /\ ev.branch = "date" /\ Head(ev.line).mon \notin DOMAIN MONTHS)
    => /\ pc = "lines"
       /\ err = NoErr
       /\ current = None
       /\ Len(transacoes) + Len(pagamentos) = opened
       /\ \A i \in 1..Len(AllRows) :
             AllRows[i].ln # nlines /\ AllRows[i].lln # nlines

\* "12 XYZ foo" read while a record was open
C7_Witness ==
    /\ layout = 1
    /\ ev.branch = "date"
    /\ Head(ev.line).mon = "XYZ"
    /\ Len(transacoes) >= 1
    /\ transacoes[Len(transacoes)].ln = nlines - 1

\* C8: with the holder name left unset (main.py passes args.owner, None
\* without --owner) a layout-1 parse uses the placeholder literal and reads
\* a line that follows the transactions header without raising an error.
C8_UnsetOwnerUsesPlaceholder ==
    (/\ layout = 1 /\ self_holder_name = NoneStr
     /\ in_transactions
     /\ ev.branch \notin {"transactions_header", "blank", "next_page",
                           "page_end", "return"})
    => /\ err = NoErr
       /\ pc # "failed"
       /\ self_holder_name = DefaultHolderName

\* C9: each output sequence only grows at its end.
C9_OutputsOnlyAppend ==
    [][IsPrefix(transacoes, transacoes') /\ IsPrefix(pagamentos, pagamentos')]_vars

\* a record has been appended and a later record is open and extended
C9_Witness ==
    /\ Len(transacoes) + Len(pagamentos) >= 1
    /\ current # None
    /\ current.lln > current.ln

\* flush() applied to the outcome of flush()
FlushTwice ==
    IF layout = 1
    THEN FlushNubank(Flush.current, in_payments, Flush.transacoes, Flush.pagamentos)
    ELSE FlushSicoob(Flush.current, in_movimentos, in_gastos,
                     Flush.transacoes, Flush.pagamentos)

\* C10: the records opened and not yet appended are none or one, the one
\* in the open slot; a flush with no open record changes nothing, and a
\* second flush in a row changes nothing.
C10_OneOpenFlushIdempotent ==
    /\ opened - (Len(transacoes) + Len(pagamentos)) \in {0, 1}
    /\ (opened - (Len(transacoes) + Len(pagamentos)) = 1) <=> (current # None)
    /\ current = None
       => Flush = [current |-> None, transacoes |-> transacoes,
                   pagamentos |-> pagamentos]
    /\ FlushTwice = Flush

\* the final flush, taken right after the flush that ended the last page
C10_Witness ==
    /\ ev.branch = "return"
    /\ page >= 1
    /\ current = None
    /\ Len(transacoes) >= 1

\* one line is read in the step
LineStep == pc = "lines" /\ nlines' = nlines + 1

\* index of the last "R$" amount of a line, 0 when there is none
LastBrlIndex(line) ==
    IF \E i \in 1..Len(line) : line[i].k = "brl"
    THEN CHOOSE i \in 1..Len(line) :
            /\ line[i].k = "brl"
            /\ \A j \in (i + 1)..Len(line) : line[j].k # "brl"
    ELSE 0

\* the normalized text that precedes the last amount of a line
TextBeforeAmount(line) ==
    JoinToks(CleanDesc(SubSeq(line, 1, LastBrlIndex(line) - 1)))

\* C11: in layout 1 a continuation line read while a record is open sets
\* the amount to the line's amount and appends the text before the amount
\* to the description when the line carries an amount; otherwise it
\* appends the whole normalized line and leaves the amount as it was.
C11_ContinuationLayout1 ==
    [][(layout = 1 /\ LineStep /\ ev'.branch = "continuation" /\ current # None)
       => /\ current' # None
          /\ current'.data = current.data
          /\ IF LastBrlIndex(ev'.line) > 0
             THEN /\ current'.valor =
                        BrlToStr(ev'.line[LastBrlIndex(ev'.line)].sg,
                                 ev'.line[LastBrlIndex(ev'.line)].num)
                  /\ current'.descricao =
                        JoinStrip(current.descricao, TextBeforeAmount(ev'.line))
             ELSE /\ current'.valor = current.valor
                  /\ current'.descricao =
                        JoinStrip(current.descricao, JoinToks(CleanDesc(ev'.line)))]_vars

\* the canonical amount of a line that ends with a bare number
TrailingAmount(line) ==
    (IF Last(line).sg = "-" THEN "-" ELSE "") \o "R$ " \o Last(line).num

\* C12: in layout 2 a line merged into the open record appends its leading
\* text and sets the amount only if the record has none when it ends with a
\* monetary token, appends the whole line when it does not, and changes
\* nothing when it starts with a client or account banner marker.
C12_MergeContinuationLayout2 ==
    [][(/\ layout = 2 /\ LineStep /\ current # None
        /\ ev'.branch \in {"continuation", "installment"})
       => /\ current' # None
          /\ current'.data = current.data
          /\ IF Head(ev'.line).s \in {"Cliente:", "Conta Cartão:"}
             THEN current' = current
             ELSE IF Last(ev'.line).k = "num"
             THEN /\ current'.descricao =
                        JoinStrip(current.descricao, JoinToks(Front(ev'.line)))
                  /\ current'.valor =
                        IF current.valor = "" THEN TrailingAmount(ev'.line)
                        ELSE current.valor
             ELSE /\ current'.descricao =
                        JoinStrip(current.descricao, JoinToks(ev'.line))
                  /\ current'.valor = current.valor]_vars

\* "CANED 8,50" read after "15/03 MERCADO 69,15": the first amount is kept
C12_Witness ==
    /\ layout = 2
    /\ ev.branch = "continuation"
    /\ current # None
    /\ current.lln = nlines
    /\ current.descricao = "MERCADO CANED"
    /\ current.valor = "R$ 69,15"

\* the valid months of GASTOS, from the reference month
RefValidMonths == {RefMonth, IF RefMonth = 1 THEN 12 ELSE RefMonth - 1}

\* C13: in layout 2, while a record is open inside GASTOS, a DD/MM-shaped
\* line whose month is outside {reference month, month before it} is merged
\* into the open record: nothing is flushed and no record is opened.
C13_InstallmentGuard ==
    [][(/\ layout = 2 /\ LineStep
        /\ current # None /\ in_gastos
        /\ DATE_DDMM_RE(ev'.line)
        /\ Head(ev'.line).mm \notin RefValidMonths)
       => /\ pc' = "lines"
          /\ opened' = opened
          /\ transacoes' = transacoes
          /\ pagamentos' = pagamentos
          /\ current' # None
          /\ current'.ln = current.ln
          /\ current'.data = current.data
          /\ current'.lln = nlines']_vars

\* "20/12 POSTO" merged into the record that is open in GASTOS
C13_Witness ==
    /\ layout = 2
    /\ ev.branch = "installment"
    /\ Head(ev.line).mm = 12
    /\ Head(ev.line).mm \notin RefValidMonths
    /\ in_gastos
    /\ current # None
    /\ current.ln < nlines
    /\ current.lln = nlines
    /\ transacoes = <<>>

\* the step has flushed the open record of a layout-1 parse
NubankFlushed ==
    /\ current' = None
    /\ transacoes' = IF current # None /\ ~in_payments
                     THEN Append(transacoes, current) ELSE transacoes
    /\ pagamentos' = IF current # None /\ in_payments
                     THEN Append(pagamentos, current) ELSE pagamentos

PaymentsLiteral == "Pagamentos e Financiamentos"

\* a date-start line of layout 1 with a known month and an existing date
GoodDateLine(line) ==
    /\ DATE_RE(line)
    /\ Head(line).mon \in DOMAIN MONTHS
    /\ ValidDate(self_statement_year - (IF Head(line).mon = "DEZ" THEN 1 ELSE 0),
                 MONTHS[Head(line).mon], Head(line).dd)

\* in PAYMENTS a date-start line opens a record
DateOpensInPayments ==
    (layout = 1 /\ LineStep /\ in_payments /\ GoodDateLine(ev'.line))
    => /\ current' # None
       /\ current'.ln = nlines'
       /\ opened' = opened + 1
       /\ ~in_holder_block'

\* C14, as stated: in layout 1 the payments header, in any state, flushes
\* the open record and leaves the parser in PAYMENTS; from then on
\* date-start lines open records without a holder-name line.
C14_AsStated ==
    [][/\ (layout = 1 /\ LineStep /\ StartsWith(ev'.line, PaymentsLiteral))
          => (NubankFlushed /\ in_payments' /\ pc' = "lines")
       /\ DateOpensInPayments]_vars

\* C14, amended: the payments header read after the transactions header
\* flushes the open record and leaves the parser in PAYMENTS (with the
\* holder name None the line raises TypeError instead); read before the
\* transactions header it is discarded; in PAYMENTS date-start lines open
\* records without a holder-name line.
C14_PaymentsHeader ==
    [][/\ (layout = 1 /\ LineStep /\ StartsWith(ev'.line, PaymentsLiteral))
          => IF ~in_transactions
             THEN UNCHANGED <<in_transactions, in_holder_block, in_payments,
                              current, transacoes, pagamentos, pc>>
             ELSE IF self_holder_name = NoneStr
             THEN pc' = "failed" /\ err' = "TypeError" /\ ~in_payments'
             ELSE /\ NubankFlushed
                  /\ in_payments' /\ ~in_holder_block' /\ in_transactions'
                  /\ pc' = "lines"
       /\ DateOpensInPayments]_vars

\* the payments header closes the record opened in the holder block
C14_Witness ==
    /\ layout = 1
    /\ ev.branch = "payments_header"
    /\ in_payments
    /\ current = None
    /\ Len(transacoes) = 1
    /\ transacoes[1].ln = nlines - 1

\* a line that starts with the configured holder name is read
HolderLineRead ==
    /\ layout = 1 /\ LineStep
    /\ self_holder_name # NoneStr
    /\ StartsWith(ev'.line, self_holder_name)

\* outside PAYMENTS nothing is opened or output before the holder block
NothingBeforeHolderBlock ==
    (layout = 1 /\ ~in_payments /\ ~in_holder_block)
    => /\ opened = 0
       /\ current = None
       /\ transacoes = <<>>
       /\ pagamentos = <<>>

\* C15, as stated: in layout 1, while PAYMENTS has not been entered, a
\* holder-name line flushes the open record and enters HOLDER_BLOCK, and
\* nothing is opened or output before the first holder-name line.
C15_AsStated ==
    /\ [][(HolderLineRead /\ ~in_payments)
          => (NubankFlushed /\ in_holder_block')]_vars
    /\ []NothingBeforeHolderBlock

\* C15, amended: once the transactions header has been seen and while
\* PAYMENTS has not been entered, a holder-name line flushes the open record
\* and enters HOLDER_BLOCK; before the transactions header it is discarded;
\* outside PAYMENTS nothing is opened or output before the holder block is
\* entered.
C15_HolderLine ==
    /\ [][(HolderLineRead /\ ~in_payments)
          => IF in_transactions
             THEN /\ NubankFlushed
                  /\ in_holder_block' /\ ~in_payments' /\ pc' = "lines"
             ELSE UNCHANGED <<in_transactions, in_holder_block, in_payments,
                              current, transacoes, pagamentos, pc>>]_vars
    /\ []NothingBeforeHolderBlock

\* a second holder-name line closes the record opened in the holder block
C15_Witness ==
    /\ layout = 1
    /\ ev.branch = "holder"
    /\ in_holder_block
    /\ current = None
    /\ Len(transacoes) = 1
    /\ transacoes[1].ln = nlines - 1

\* C16: in layout 1, while in PAYMENTS, a line starting with the holder
\* name changes nothing: the section flags, the open record (which stays
\* open) and both output sequences are as before.
C16_HolderLineInPayments ==
    [][(HolderLineRead /\ in_payments)
       => /\ UNCHANGED <<in_transactions, in_holder_block, in_payments,
                         current, transacoes, pagamentos, opened>>
          /\ pc' = "lines"]_vars

\* the holder name is read in PAYMENTS while a record is open
C16_Witness ==
    /\ layout = 1
    /\ ev.branch = "holder_in_payments"
    /\ in_payments
    /\ current # None
    /\ current.sec = "secondary"
    /\ current.ln = nlines - 1

TransactionsLiteral == "TRANSAÇÕES DE"

\* C17: in layout 1 the transactions header, read at any time, flushes the
\* open record and activates parsing; the records already output are kept
\* and HOLDER_BLOCK / PAYMENTS are as they were before the header.
C17_TransactionsHeader ==
    [][(layout = 1 /\ LineStep /\ StartsWith(ev'.line, TransactionsLiteral))
       => /\ NubankFlushed
          /\ in_transactions'
          /\ in_holder_block' = in_holder_block
          /\ in_payments' = in_payments
          /\ opened' = opened
          /\ pc' = "lines"]_vars

\* the repeated header closes the record opened in the holder block
C17_Witness ==
    /\ layout = 1
    /\ ev.branch = "transactions_header"
    /\ in_transactions
    /\ in_holder_block
    /\ current = None
    /\ Len(transacoes) = 1
    /\ transacoes[1].ln = nlines - 1

SaldoLiteral == "- SALDO ANTERIOR"

\* the amount the trailing numeric token of a layout-2 line stands for
TrailingValueOrEmpty(line) ==
    IF Last(line).k = "num"
    THEN (IF Last(line).sg = "-" THEN "-R$ " ELSE "R$ ") \o Last(line).num
    ELSE ""

\* a dateless record never has a line attached after the one that made it
DatelessSelfContained ==
    /\ \A i \in 1..Len(pagamentos) :
          pagamentos[i].data = "" => pagamentos[i].lln = pagamentos[i].ln
    /\ \A i \in 1..Len(transacoes) : transacoes[i].data # ""
    /\ current # None => current.data # ""

\* C18: in layout 2, inside MOVIMENTOS, a line starting with the prior
\* balance marker flushes the open record, then appends one dateless record
\* to secondary at once (amount from the trailing numeric token, empty if
\* there is none); no record is open afterwards and no later line is
\* attached to the dateless record.
C18_SaldoAnterior ==
    /\ [][(layout = 2 /\ LineStep /\ in_movimentos
             /\ StartsWith(ev'.line, SaldoLiteral))
          => /\ current' = None
             /\ transacoes' = transacoes
             /\ opened' = opened + 1
             /\ pagamentos' # <<>>
             /\ Front(pagamentos') = (IF current # None
                                      THEN Append(pagamentos, current)
                                      ELSE pagamentos)
             /\ Last(pagamentos').data = ""
             /\ Last(pagamentos').valor = TrailingValueOrEmpty(ev'.line)
             /\ Last(pagamentos').ln = nlines'
             /\ pc' = "lines"]_vars
    /\ []DatelessSelfContained

\* the marker without an amount, read while a dated record was open
C18_Witness ==
    /\ layout = 2
    /\ ev.branch = "saldo_anterior"
    /\ current = None
    /\ Len(pagamentos) = 2
    /\ pagamentos[1].data # ""
    /\ pagamentos[2].data = ""
    /\ pagamentos[2].valor = ""
    /\ pagamentos[2].ln = nlines

\* the step has flushed the open record of a layout-2 parse
SicoobFlushed ==
    /\ current' = None
    /\ transacoes' = IF current # None /\ in_gastos /\ ~in_movimentos
                     THEN Append(transacoes, current) ELSE transacoes
    /\ pagamentos' = IF current # None /\ in_movimentos /\ ~in_gastos
                     THEN Append(pagamentos, current) ELSE pagamentos

\* C19: in layout 2 MOVIMENTOS and GASTOS are never both set; the GASTOS
\* header flushes, sets GASTOS and clears MOVIMENTOS; the MOVIMENTOS header
\* flushes and sets MOVIMENTOS; a totals line read in GASTOS flushes and
\* clears GASTOS; with neither flag set every line but a section header is
\* discarded.
C19_SectionFlags ==
    /\ [](~(in_movimentos /\ in_gastos))
    /\ [][(layout = 2 /\ LineStep)
          => /\ StartsWith(ev'.line, "GASTOS DE")
                => (SicoobFlushed /\ in_gastos' /\ ~in_movimentos')
             /\ StartsWith(ev'.line, "MOVIMENTOS")
                => (SicoobFlushed /\ in_movimentos')
             /\ (in_gastos /\ (\/ StartsWith(ev'.line, "TOTAL")
                               \/ StartsWith(ev'.line, "DEMONSTRATIVO")))
                => (SicoobFlushed /\ ~in_gastos'
                      /\ in_movimentos' = in_movimentos)
             /\ (/\ ~in_gastos /\ ~in_movimentos
                 /\ ~StartsWith(ev'.line, "GASTOS DE")
                 /\ ~StartsWith(ev'.line, "MOVIMENTOS"))
                => UNCHANGED <<in_movimentos, in_gastos, current,
                               transacoes, pagamentos, opened>>]_vars

\* a line read after the totals line that closed GASTOS is discarded
C19_Witness ==
    /\ layout = 2
    /\ ev.branch = "outside"
    /\ ev.line # <<>>
    /\ ~in_gastos /\ ~in_movimentos
    /\ current = None
    /\ Len(transacoes) = 1
    /\ transacoes[1].lln < nlines - 1

\* the section the parser is in
InSecondary ==
    IF layout = 1 THEN in_payments ELSE in_movimentos /\ ~in_gastos

\* C20: in both layouts a record is appended to the sequence of the section
\* it was opened in, whatever triggers the flush: every record of primary
\* was opened in HOLDER_BLOCK / GASTOS, every record of secondary in
\* PAYMENTS / MOVIMENTOS, and the open record belongs to the current section.
C20_RoutedBySectionOfOpening ==
    /\ \A i \in 1..Len(transacoes) : transacoes[i].sec = "primary"
    /\ \A i \in 1..Len(pagamentos) : pagamentos[i].sec = "secondary"
    /\ current # None => (current.sec = "secondary") = InSecondary

\* the header of the other section closes a record opened in MOVIMENTOS
C20_Witness ==
    /\ layout = 2
    /\ ev.branch = "gastos_header"
    /\ in_gastos
    /\ transacoes = <<>>
    /\ Len(pagamentos) = 1
    /\ pagamentos[1].data # ""
    /\ pagamentos[1].sec = "secondary"
    /\ pagamentos[1].ln = nlines - 1

\* C21: in layout 1 PAYMENTS is absorbing: once it is entered no step
\* leaves it, primary receives no further record, every record opened
\* afterwards is a secondary record, and a record that leaves the slot is
\* appended to secondary.
C21_PaymentsAbsorbing ==
    [][(layout = 1 /\ in_payments)
       => /\ in_payments'
          /\ ~in_holder_block'
          /\ transacoes' = transacoes
          /\ opened' > opened
             => (current' # None /\ current'.sec = "secondary")
          /\ (current # None /\ current' # None /\ current'.ln = current.ln)
             => pagamentos' = pagamentos
          /\ (current # None /\ (current' = None \/ current'.ln # current.ln))
             => pagamentos' = Append(pagamentos, current)]_vars

\* the transactions header repeated inside PAYMENTS closes a record, which
\* goes to secondary, and PAYMENTS is still the state
C21_Witness ==
    /\ layout = 1
    /\ ev.branch = "transactions_header"
    /\ in_payments
    /\ current = None
    /\ transacoes = <<>>
    /\ Len(pagamentos) = 1
    /\ pagamentos[1].ln = nlines - 1

\* a DD/MM-shaped line is read inside GASTOS while no record is open
DateLineNoOpenRecord ==
    /\ layout = 2 /\ LineStep
    /\ in_gastos /\ current = None
    /\ DATE_DDMM_RE(ev'.line)

\* the line has opened a record dated by its own day and month
OpensNewRecord ==
    /\ opened' = opened + 1
    /\ current' # None
    /\ current'.ln = nlines'
    /\ current'.data = IsoFormat(SicoobYear(Head(ev'.line).mm),
                                 Head(ev'.line).mm, Head(ev'.line).dd)
    /\ current'.sec = "primary"
    /\ transacoes' = transacoes
    /\ pagamentos' = pagamentos
    /\ pc' = "lines"

\* C22, as stated: in layout 2, inside GASTOS with no open record, a
\* DD/MM-shaped line always starts a new record, whatever its month.
C22_AsStated ==
    [][DateLineNoOpenRecord => OpensNewRecord]_vars

\* C22, amended: in layout 2, inside GASTOS with no open record, a
\* DD/MM-shaped line is never merged: when its day and month name a calendar
\* date it starts a new record whatever its month, and otherwise the parse
\* fails with ValueError and nothing is opened.
C22_DateLineNoOpenRecord ==
    [][DateLineNoOpenRecord
       => IF ValidDate(SicoobYear(Head(ev'.line).mm),
                       Head(ev'.line).mm, Head(ev'.line).dd)
          THEN OpensNewRecord
          ELSE /\ pc' = "failed" /\ err' = "ValueError"
               /\ opened' = opened
               /\ current' = None
               /\ transacoes' = transacoes
               /\ pagamentos' = pagamentos]_vars

\* "20/12 POSTO", a month outside the valid months, opens a record on the
\* first line after the end-of-page flush
C22_Witness ==
    /\ layout = 2
    /\ ev.branch = "date"
    /\ in_gastos
    /\ Head(ev.line).mm \notin valid_months_gastos
    /\ current # None
    /\ current.ln = nlines
    /\ Len(transacoes) = 1
    /\ transacoes[1].lpg < current.pg
    /\ transacoes[1].lln = nlines - 1

====
